---- MODULE Spec2Model ----
(***************************************************************************)
(* A model of app.py, the CMS Performance Dashboard: one run of the        *)
(* Streamlit script from the loading of the base workbook and the roster   *)
(* to the rendering of the four tabs.                                      *)
(*                                                                         *)
(* Data frames are sequences of rows, a row is a record over the four key  *)
(* columns.  Column names are written with "_" for the blank               *)
(* (TRANSFORMED_DATE is 'TRANSFORMED DATE', Data_Set is 'Data Set').       *)
(* A month label 'YYYY-MM' is the integer YYYY*100+MM, whose numeric order *)
(* is the lexicographic order of the label.  A float is an exact rational  *)
(* <<numerator, denominator>> in lowest terms; rounding is not modelled.   *)
(***************************************************************************)
EXTENDS Integers, Sequences, FiniteSets, TLC

\* ------------------------------------------------------------------ bounds
MaxBaseRows == 2
MaxUploadRows == 1
MaxCount == 10
MaxMergeRows == 2
MaxRosterRows == 2
MaxViewRows == 3
MaxTopN == 2
MaxDeltaRows == 2
MaxPayers == 11

\* --------------------------------------------------------- missing values
\* NaN is a missing string cell.  A date cell is a record [y, m, d]: NaT is the
\* missing date and NotADate a text that no date parser accepts.
NaN == "NaN"
NaT == [y |-> 0, m |-> 0, d |-> 0]
NotADate == [y |-> -1, m |-> 0, d |-> 0]
\* the label 'NaT' of a missing month; as a string it sorts after every 'YYYY-MM'
NaTLabel == 999999
\* None as the result of calculate_percentage_change
None == <<0, 0>>

\* ----------------------------------------------------------------- columns
required_columns == {"TRANSFORMED_DATE", "PROCEDURE", "REFERRING_PHYSICIAN", "Data_Set"}

\* ------------------------------------------------------------------- dates
Date(y, m, d) == [y |-> y, m |-> m, d |-> d]

IsDate(v) == v.y > 0

IsLeap(y) == (y % 4 = 0) /\ ((y % 100 # 0) \/ (y % 400 = 0))

DaysInMonth(y, m) ==
    IF m = 2 THEN (IF IsLeap(y) THEN 29 ELSE 28)
    ELSE IF m \in {4, 6, 9, 11} THEN 30 ELSE 31

RECURSIVE DaysBeforeMonth(_, _)
DaysBeforeMonth(y, m) ==
    IF m = 1 THEN 0 ELSE DaysBeforeMonth(y, m - 1) + DaysInMonth(y, m - 1)

\* proleptic Gregorian ordinal, 0001-01-01 is day 1
Ordinal(dt) ==
    LET p == dt.y - 1
    IN  p * 365 + (p \div 4) - (p \div 100) + (p \div 400)
        + DaysBeforeMonth(dt.y, dt.m) + dt.d

DayNames == <<"Monday", "Tuesday", "Wednesday", "Thursday", "Friday", "Saturday", "Sunday">>

\* .dt.day_name(): NaN for a missing date
day_name(v) == IF IsDate(v) THEN DayNames[((Ordinal(v) + 6) % 7) + 1] ELSE NaN

\* .dt.to_period('M').astype(str): 'NaT' for a missing date
to_period_M(v) == IF IsDate(v) THEN v.y * 100 + v.m ELSE NaTLabel

\* order of two date values under sort_values (NaT is placed last)
DateLeq(a, b) ==
    IF ~IsDate(b) THEN TRUE
    ELSE IF ~IsDate(a) THEN FALSE
    ELSE Ordinal(a) <= Ordinal(b)

\* -------------------------------------------------------------- the inputs
Row(dt, proc, doc, ins) ==
    [TRANSFORMED_DATE |-> dt, PROCEDURE |-> proc, REFERRING_PHYSICIAN |-> doc, Data_Set |-> ins]

\* complete rows, and a row without a physician
Rows ==
    { Row(Date(2024, 1, 5), "MRI", "Dr. A", "InsX"),
      Row(Date(2024, 1, 6), "MRI", "Dr. A", "InsY"),
      Row(Date(2024, 2, 1), "MRI", "Dr. A", "InsX"),
      Row(Date(2024, 2, 1), "CT", "Dr. B", "InsY"),
      Row(Date(2024, 1, 5), "MRI", NaN, "InsX") }

\* a row without a date and a row whose date is no date
NaTRow == Row(NaT, "CT", "Dr. B", "InsX")

NotADateRow == Row(NotADate, "MRI", "Dr. A", "InsX")

SeqUpTo(S, n) == UNION {[1..k -> S] : k \in 0..n}

Range(s) == {s[i] : i \in 1..Len(s)}

\* a sheet that lacks a column has rows without that field
Restrict(r, cols) == [c \in cols |-> r[c]]

\* a workbook on disk or in the uploader: status "ok" (readable), "missing"
\* (FileNotFoundError), "corrupt" (any other read error) or "none" (no upload)
Sheet(cols, rows) ==
    [status |-> "ok", columns |-> cols, rows |-> [i \in 1..Len(rows) |-> Restrict(rows[i], cols)]]

NoSheet(st) == [status |-> st, columns |-> {}, rows |-> <<>>]

\* the base workbooks: complete sheets of up to MaxBaseRows rows, sheets with a
\* row of the two odd kinds alone or behind a dated row, sheets that lack
\* columns, and no readable workbook at all
BaseFiles ==
    {Sheet(required_columns, s) : s \in SeqUpTo(Rows, MaxBaseRows)}
    \cup {Sheet(required_columns, s \o <<r>>) :
             s \in SeqUpTo({Row(Date(2024, 2, 1), "MRI", "Dr. A", "InsX")}, 1),
             r \in {NaTRow, NotADateRow}}
    \cup {Sheet(cols, s) : cols \in (SUBSET required_columns) \ {required_columns},
                           s \in SeqUpTo({NotADateRow, NaTRow}, 1)}
    \cup {NoSheet(st) : st \in {"missing", "corrupt"}}

UploadColumnSets ==
    { required_columns,
      required_columns \ {"PROCEDURE"},
      required_columns \ {"TRANSFORMED_DATE", "Data_Set"} }

UploadRows == {Row(Date(2024, 2, 1), "MRI", "Dr. A", "InsX"), NotADateRow}

Uploads ==
    {NoSheet("none"), NoSheet("corrupt")}
    \cup {Sheet(cols, s) : cols \in UploadColumnSets, s \in SeqUpTo(UploadRows, MaxUploadRows)}

\* the roster workbook: a header for the representative column and rows
\* (Referring Physician, representative)
possible_names == <<"RESPONSABLE", "Responsable", "RESPONSIBLE", "Responsible">>

RosterRow(doc, rep) == [Referring_Physician |-> doc, responsible |-> rep]

RosterSheet(headers, rows) == [status |-> "ok", headers |-> headers, rows |-> rows]

RosterFiles ==
    { [status |-> "corrupt", headers |-> {}, rows |-> <<>>],
      RosterSheet({"Owner"}, <<RosterRow("Dr. A", "ALEX")>>),
      RosterSheet({"RESPONSABLE"}, <<>>),
      RosterSheet({"Responsable", "RESPONSIBLE"},
                  <<RosterRow("Dr. A", "ALEX"), RosterRow("Dr. B", "LUIS")>>) }

\* rosters of up to MaxRosterRows rows: a physician may stand on several rows,
\* under one representative or under two, and a representative may be none of
\* the three of the dashboard
RosterRows ==
    { RosterRow("Dr. A", "ALEX"),
      RosterRow("Dr. A", "LUIS"),
      RosterRow("Dr. B", "LUIS"),
      RosterRow("Dr. B", "GERARDO"),
      RosterRow("Dr. C", "OTHER") }

RosterHeaderSets == {{"Responsible"}, {"Owner"}}

RichRosterFiles ==
    {RosterSheet(h, s) : h \in RosterHeaderSets, s \in SeqUpTo(RosterRows, MaxRosterRows)}

\* the base workbooks read with them: physicians Dr. A and Dr. C in two months,
\* physicians Dr. A and Dr. B, and a single Saturday's row
RosterBaseFiles ==
    { Sheet(required_columns, <<Row(Date(2024, 1, 5), "MRI", "Dr. A", "InsX"),
                                Row(Date(2024, 2, 1), "CT", "Dr. C", "InsY"),
                                Row(Date(2024, 2, 1), "MRI", "Dr. A", "InsX")>>),
      Sheet(required_columns, <<Row(Date(2024, 1, 5), "MRI", "Dr. A", "InsX"),
                                Row(Date(2024, 1, 5), "CT", "Dr. B", "InsY"),
                                Row(Date(2024, 2, 1), "CT", "Dr. B", "InsY")>>),
      Sheet(required_columns, <<Row(Date(2024, 1, 6), "MRI", "Dr. A", "InsY")>>) }

\* ------------------------------------------------------------- data frames
Frame(cols, rows) == [none |-> FALSE, columns |-> cols, rows |-> rows]

NoneFrame == [none |-> TRUE, columns |-> {}, rows |-> <<>>]

\* a message on the page: st.error / st.warning / st.success / st.info
Msg(level, code, cols, n) == [level |-> level, code |-> code, cols |-> cols, n |-> n]

Filter(s, Keep(_)) == SelectSeq(s, Keep)

\* Series.unique(): the distinct values in order of first appearance
RECURSIVE unique(_)
unique(s) ==
    IF s = <<>> THEN <<>>
    ELSE LET front == unique(SubSeq(s, 1, Len(s) - 1))
             last == s[Len(s)]
         IN  IF last \in Range(front) THEN front ELSE Append(front, last)

Column(rows, c) == [i \in 1..Len(rows) |-> rows[i][c]]

\* Series.nunique(): missing strings are not counted
nunique(rows, c) == Cardinality(Range(Column(rows, c)) \ {NaN})

\* the date cells of a frame that hold a date, and Series.min() / max() of them
ValidDates(rows) == {r.TRANSFORMED_DATE : r \in {x \in Range(rows) : IsDate(x.TRANSFORMED_DATE)}}

date_min(rows) ==
    IF ValidDates(rows) = {} THEN NaT
    ELSE CHOOSE a \in ValidDates(rows) : \A b \in ValidDates(rows) : DateLeq(a, b)

date_max(rows) ==
    IF ValidDates(rows) = {} THEN NaT
    ELSE CHOOSE a \in ValidDates(rows) : \A b \in ValidDates(rows) : DateLeq(b, a)

\* pd.to_datetime / astype('datetime64[ns]') raises when a cell is no date
\* and not missing; astype('object') never raises
ConversionFails(rows, col) ==
    /\ col = "TRANSFORMED_DATE"
    /\ \E i \in 1..Len(rows) : rows[i][col] = NotADate

\* ------------------------------------------------- calculate_percentage_change
RECURSIVE GCD(_, _)
GCD(a, b) == IF b = 0 THEN a ELSE GCD(b, a % b)

Abs(x) == IF x < 0 THEN -x ELSE x

\* the quotient n / d of two integers, d # 0, as a fraction in lowest terms
Ratio(n, d) ==
    LET g == GCD(Abs(n), Abs(d))
        sgn == IF d < 0 THEN -1 ELSE 1
    IN  <<sgn * (n \div g), sgn * (d \div g)>>

\* the factor 100 left out
calculate_percentage_change_fraction(old_value, new_value) ==
    IF old_value = 0 THEN None
    ELSE Ratio(new_value - old_value, old_value)

calculate_percentage_change(old_value, new_value) ==
    IF old_value = 0 THEN None
    ELSE Ratio((new_value - old_value) * 100, old_value)

\* --------------------------------------------------------- load_base_data
RequiredOrder == <<"TRANSFORMED_DATE", "PROCEDURE", "REFERRING_PHYSICIAN", "Data_Set">>

\* unparsable dates coerced to NaT instead of failing the load
load_base_data_coerce(file) ==
    LET missing_columns == {c \in required_columns : c \notin file.columns}
    IN  IF file.status # "ok"
        THEN [value |-> NoneFrame, msgs |-> <<Msg("error", "base_load_error", {}, 0)>>]
        ELSE IF missing_columns # {}
        THEN [value |-> NoneFrame,
              msgs |-> <<Msg("error", "base_missing_columns", missing_columns, 0)>>]
        ELSE [value |-> Frame(file.columns, file.rows),
              msgs |-> <<Msg("success", "base_loaded", {}, Len(file.rows))>>]

load_base_data(file) ==
    LET missing_columns == {c \in required_columns : c \notin file.columns}
    IN  IF file.status = "missing"
        THEN [value |-> NoneFrame, msgs |-> <<Msg("error", "base_not_found", {}, 0)>>]
        ELSE IF file.status # "ok"
        THEN [value |-> NoneFrame, msgs |-> <<Msg("error", "base_load_error", {}, 0)>>]
        ELSE IF missing_columns # {}
        THEN [value |-> NoneFrame,
              msgs |-> <<Msg("error", "base_missing_columns", missing_columns, 0)>>]
        ELSE IF ConversionFails(file.rows, "TRANSFORMED_DATE")
        THEN [value |-> NoneFrame,
              msgs |-> <<Msg("error", "base_date_conversion", {"TRANSFORMED_DATE"}, 0)>>]
        ELSE [value |-> Frame(file.columns, file.rows),
              msgs |-> <<Msg("success", "base_loaded", {}, Len(file.rows))>>]

\* ------------------------------------------------------ load_top_200_docs
RECURSIVE FirstMatch(_, _, _)
FirstMatch(names, headers, i) ==
    IF i > Len(names) THEN "None"
    ELSE IF names[i] \in headers THEN names[i]
    ELSE FirstMatch(names, headers, i + 1)

NoRoster == [none |-> TRUE, correct_responsible_column |-> "None", rows |-> <<>>]

load_top_200_docs(file) ==
    LET responsible_column == FirstMatch(possible_names, file.headers, 1)
    IN  IF file.status # "ok"
        THEN [value |-> NoRoster, msgs |-> <<Msg("error", "roster_load_error", {}, 0)>>]
        ELSE IF responsible_column = "None"
        THEN [value |-> NoRoster, msgs |-> <<Msg("error", "roster_no_responsible_column", {}, 0)>>]
        ELSE [value |-> [none |-> FALSE, correct_responsible_column |-> responsible_column,
                         rows |-> file.rows],
              msgs |-> <<>>]

\* ------------------------------------------------------------ validate_data
RECURSIVE ConversionErrors(_, _, _)
ConversionErrors(new_data, cols, i) ==
    IF i > Len(cols) THEN <<>>
    ELSE (IF cols[i] \in new_data.columns /\ ConversionFails(new_data.rows, cols[i])
          THEN <<Msg("error", "upload_conversion", {cols[i]}, 0)>>
          ELSE <<>>)
         \o ConversionErrors(new_data, cols, i + 1)

validate_data(new_data, base) ==
    LET missing_cols == base.columns \ new_data.columns
        validation_errors ==
            (IF missing_cols # {}
             THEN <<Msg("error", "upload_missing_columns", missing_cols, 0)>>
             ELSE <<>>)
            \o ConversionErrors(new_data, RequiredOrder, 1)
    IN  [value |-> (validation_errors = <<>>), msgs |-> validation_errors]

\* ------------------------------------------------------------------- merge
concat(a, b) == a \o b

\* the result of drop_duplicates() thrown away
keep_duplicates(rows) == rows

\* drop_duplicates(subset=['TRANSFORMED DATE']): the first row of each date stays
drop_duplicates_by_date(rows) ==
    LET First(i) == \A j \in 1..(i - 1) : rows[j].TRANSFORMED_DATE # rows[i].TRANSFORMED_DATE
        idx == SelectSeq([i \in 1..Len(rows) |-> i], First)
    IN  [k \in 1..Len(idx) |-> rows[idx[k]]]

\* DataFrame.drop_duplicates(): the first of equal rows stays
drop_duplicates(rows) == unique(rows)

IsSortedByDate(rows) ==
    \A i \in 1..(Len(rows) - 1) : DateLeq(rows[i].TRANSFORMED_DATE, rows[i + 1].TRANSFORMED_DATE)

\* DataFrame.sort_values('TRANSFORMED DATE'): the default sort is not stable, so
\* every date-ascending arrangement of the rows is a possible outcome
sort_values(rows) ==
    {t \in {[i \in 1..Len(rows) |-> rows[p[i]]] : p \in Permutations(1..Len(rows))} :
        IsSortedByDate(t)}

\* lines 153-161: the outcomes of merging new rows into the base rows
Merge(base_rows, new_rows) ==
    LET combined == concat(base_rows, new_rows)
        initial_len == Len(combined)
        deduped == drop_duplicates(combined)
    IN  {[data |-> t,
          added |-> Len(new_rows),
          duplicates_removed |-> initial_len - Len(deduped),
          total |-> Len(t)] : t \in sort_values(deduped)}

\* lines 191-193: the derived columns ('Day of Month' is never read again)
Preprocess(rows) ==
    [i \in 1..Len(rows) |->
        [TRANSFORMED_DATE |-> rows[i].TRANSFORMED_DATE,
         PROCEDURE |-> rows[i].PROCEDURE,
         REFERRING_PHYSICIAN |-> rows[i].REFERRING_PHYSICIAN,
         Data_Set |-> rows[i].Data_Set,
         Month |-> to_period_M(rows[i].TRANSFORMED_DATE),
         Day_of_Week |-> day_name(rows[i].TRANSFORMED_DATE)]]

\* lines 196-202: the sidebar's summary of all the data
Summary(rows) ==
    [total_records |-> Len(rows),
     date_from |-> date_min(rows),
     date_to |-> date_max(rows),
     unique_doctors |-> nunique(rows, "REFERRING_PHYSICIAN"),
     months_available |-> Cardinality(Range(Column(rows, "Month")))]

NoSummary ==
    [total_records |-> 0, date_from |-> NaT, date_to |-> NaT, unique_doctors |-> 0,
     months_available |-> 0]

\* NaT.strftime raises ValueError
StrftimeRaises(v) == ~IsDate(v)

\* a six-day week
working_days_with_saturday ==
    {"Monday", "Tuesday", "Wednesday", "Thursday", "Friday", "Saturday"}

working_days == {"Monday", "Tuesday", "Wednesday", "Thursday", "Friday"}

\* -------------------------------------------------------------- aggregation
\* the strings of the model in lexicographic order (groupby and Index.union sort keys)
Payers ==
    <<"Ins01", "Ins02", "Ins03", "Ins04", "Ins05", "Ins06", "Ins07", "Ins08", "Ins09", "Ins10",
      "Ins11", "Ins12">>

StrOrder ==
    <<"All Procedures", "CT", "Dr. A", "Dr. B", "Dr. C">> \o Payers \o <<"InsX", "InsY", "MRI", "NaN">>

StrRank(v) == CHOOSE i \in 1..Len(StrOrder) : StrOrder[i] = v

KeyLeq(c, a, b) == IF c = "Month" THEN a <= b ELSE StrRank(a) <= StrRank(b)

\* the ascending sequence of a set of keys of column c
RECURSIVE SortKeys(_, _)
SortKeys(c, K) ==
    IF K = {} THEN <<>>
    ELSE LET least == CHOOSE a \in K : \A b \in K : KeyLeq(c, a, b)
         IN  <<least>> \o SortKeys(c, K \ {least})

\* the group keys of column c: a missing string is no group (dropna)
GroupKeys(rows, c) ==
    IF c = "Month" THEN Range(Column(rows, c)) ELSE Range(Column(rows, c)) \ {NaN}

CountWhere(rows, c, k) == Cardinality({i \in 1..Len(rows) : rows[i][c] = k})

\* groupby(c).size(): a Series <<[key, Count], ...>> ascending in the key
groupby_size(rows, c) ==
    LET keys == SortKeys(c, GroupKeys(rows, c))
    IN  [i \in 1..Len(keys) |-> [key |-> keys[i], Count |-> CountWhere(rows, c, keys[i])]]

\* Series.value_counts() as a mapping (its order is not read by the model)
Index(series) == [i \in 1..Len(series) |-> series[i].key]

\* Series.get(key, 0)
Get(series, k) ==
    IF \E i \in 1..Len(series) : series[i].key = k
    THEN series[CHOOSE i \in 1..Len(series) : series[i].key = k].Count
    ELSE 0

head(s, n) == SubSeq(s, 1, IF Len(s) < n THEN Len(s) ELSE n)

tail(s, n) == SubSeq(s, IF Len(s) < n THEN 1 ELSE Len(s) - n + 1, Len(s))

PermsOf(s) == {[i \in 1..Len(s) |-> s[p[i]]] : p \in Permutations(1..Len(s))}

\* ascending=False left out: any ascending arrangement
sort_values_asc(series) ==
    {t \in PermsOf(series) : \A i \in 1..(Len(t) - 1) : t[i].Count <= t[i + 1].Count}

\* Series.sort_values(ascending=False): not stable, any descending arrangement
sort_values_desc(series) ==
    {t \in PermsOf(series) : \A i \in 1..(Len(t) - 1) : t[i].Count >= t[i + 1].Count}

\* lines 282-288, 297-305: groupby(c).size().sort_values(ascending=False)
\* .reset_index(name='Count').head(n), every outcome of the sort
top_counts(rows, c, n) == {head(t, n) : t \in sort_values_desc(groupby_size(rows, c))}

\* a stable sort: s[i] goes behind every element that is before it and behind
\* its equals of smaller index
StableSort(s, Before(_, _)) ==
    LET pos(i) == 1 + Cardinality({j \in 1..Len(s) :
                        Before(s[j], s[i]) \/ (~Before(s[i], s[j]) /\ j < i)})
    IN  [k \in 1..Len(s) |-> s[CHOOSE i \in 1..Len(s) : pos(i) = k]]

TopN == 10

\* Series.nlargest(n): keep='first', equal counts stay in their given order
nlargest(series, n) ==
    LET Before(a, b) == a.Count > b.Count
    IN  head(StableSort(series, Before), n)

\* the first n rows of the frame as it stands
first_rows(frame, n) == head(frame, n)

\* DataFrame.nlargest(n, 'Change') / nsmallest(n, 'Change'), keep='first'
nlargest_change(frame, n) ==
    LET Before(a, b) == a.Change > b.Change
    IN  head(StableSort(frame, Before), n)

nsmallest_change(frame, n) ==
    LET Before(a, b) == a.Change < b.Change
    IN  head(StableSort(frame, Before), n)

\* the index of pd.DataFrame({a: s1, b: s2}): the common index when both are
\* equal, else the sorted union
UnionIndex(c, s1, s2) ==
    IF Index(s1) = Index(s2) THEN Index(s1)
    ELSE SortKeys(c, Range(Index(s1)) \cup Range(Index(s2)))

Has(series, k) == \E i \in 1..Len(series) : series[i].key = k

\* pd.DataFrame({older: s1, newest: s2}).fillna(0): a key absent from a Series
\* gives a missing cell, which fillna(0) turns into 0
\* an inner join: only the keys of both Series
inner_join(c, s1, s2) ==
    LET both(k) == Has(s1, k) /\ Has(s2, k)
        idx == Filter(UnionIndex(c, s1, s2), both)
    IN  [i \in 1..Len(idx) |->
            [key |-> idx[i], older |-> Get(s1, idx[i]), newest |-> Get(s2, idx[i])]]

outer_join_fillna(c, s1, s2) ==
    LET idx == UnionIndex(c, s1, s2)
    IN  [i \in 1..Len(idx) |->
            [key |-> idx[i],
             older |-> IF Has(s1, idx[i]) THEN Get(s1, idx[i]) ELSE 0,
             newest |-> IF Has(s2, idx[i]) THEN Get(s2, idx[i]) ELSE 0]]

WithChange(frame) ==
    [i \in 1..Len(frame) |->
        [key |-> frame[i].key, older |-> frame[i].older, newest |-> frame[i].newest,
         Change |-> frame[i].newest - frame[i].older]]

\* lines 465-471
all_doctors_comparison(older_month_data, newest_month_data) ==
    WithChange(outer_join_fillna("REFERRING_PHYSICIAN",
                                 groupby_size(older_month_data, "REFERRING_PHYSICIAN"),
                                 groupby_size(newest_month_data, "REFERRING_PHYSICIAN")))

InMonth(rows, month) == LET Keep(r) == r.Month = month IN Filter(rows, Keep)

\* st.multiselect(max_selections=2): the distinct options picked, in picking order
Selections(options) ==
    {s \in SeqUpTo(Range(options), 2) : \A i, j \in 1..Len(s) : i # j => s[i] # s[j]}

\* ------------------------------------------------------------------- state
VARIABLES
    pc,             \* the position of the script run
    baseFile,       \* the workbook "base_data (3).xlsx" on disk
    rosterFile,     \* the workbook "Top_200_doctores.xlsx" on disk
    uploaded_file,  \* the file in the uploader
    base_data,      \* the result of load_base_data()
    top_200_docs,   \* the result of load_top_200_docs()
    data,           \* the record store
    working_data,   \* the working-day rows of data
    month_summary,  \* the Month x PROCEDURE counts
    messages,       \* the messages shown, in order
    merge_report,   \* the counts shown after a merge
    sidebar,        \* the sidebar's Current Data Summary
    out,            \* what the tab rendered last shows
    call            \* an application of a function to arguments of its own

vars == <<pc, baseFile, rosterFile, uploaded_file, base_data, top_200_docs, data,
          working_data, month_summary, messages, merge_report, sidebar, out, call>>

NoReport == [shown |-> FALSE, added |-> 0, duplicates_removed |-> 0, total |-> 0]

NoOut == [tab |-> "none"]

NoCall == [fn |-> "none"]

NoMonth == 0

Blank ==
    /\ uploaded_file = NoSheet("none")
    /\ base_data = NoneFrame
    /\ top_200_docs = NoRoster
    /\ data = NoneFrame
    /\ working_data = <<>>
    /\ month_summary = <<>>
    /\ messages = <<>>
    /\ merge_report = NoReport
    /\ sidebar = NoSummary
    /\ out = NoOut

Init ==
    /\ pc = "load_base_data"
    /\ baseFile \in BaseFiles
    /\ rosterFile \in RosterFiles
    /\ call = NoCall
    /\ Blank

\* ------------------------------------------------------- lines 88-89: loading
LoadBaseData ==
    /\ pc = "load_base_data"
    /\ LET r == load_base_data(baseFile)
       IN  /\ base_data' = r.value
           /\ messages' = messages \o r.msgs
    /\ pc' = "load_top_200_docs"
    /\ UNCHANGED <<baseFile, rosterFile, uploaded_file, top_200_docs, data, working_data,
                   month_summary, merge_report, sidebar, out, call>>

LoadTop200Docs ==
    /\ pc = "load_top_200_docs"
    /\ LET r == load_top_200_docs(rosterFile)
       IN  /\ top_200_docs' = r.value
           /\ messages' = messages \o r.msgs
    /\ pc' = "ingest"
    /\ UNCHANGED <<baseFile, rosterFile, uploaded_file, base_data, data, working_data,
                   month_summary, merge_report, sidebar, out, call>>

\* ---------------------------------------------- lines 122-211: the ingestion
\* lines 204-211: no base data, the run stops
NoBaseData ==
    /\ pc = "ingest"
    /\ base_data.none
    /\ messages' = Append(messages, Msg("error", "no_base_data", {}, 0))
    /\ pc' = "stopped"
    /\ UNCHANGED <<baseFile, rosterFile, uploaded_file, base_data, top_200_docs, data,
                   working_data, month_summary, merge_report, sidebar, out, call>>

\* line 127: min() of no date is NaT and NaT.strftime raises outside any try
BaseSummaryCrash ==
    /\ pc = "ingest"
    /\ ~base_data.none
    /\ StrftimeRaises(date_min(base_data.rows))
    /\ messages' = Append(messages, Msg("exception", "ValueError", {}, 0))
    /\ pc' = "crashed"
    /\ UNCHANGED <<baseFile, rosterFile, uploaded_file, base_data, top_200_docs, data,
                   working_data, month_summary, merge_report, sidebar, out, call>>

BaseSummaryShown ==
    /\ pc = "ingest"
    /\ ~base_data.none
    /\ ~StrftimeRaises(date_min(base_data.rows))

BaseInfo == Msg("info", "base_summary", {}, Len(base_data.rows))

\* lines 186-202: nothing uploaded, the store is a copy of the base data
NoUpload ==
    /\ BaseSummaryShown
    /\ uploaded_file' = NoSheet("none")
    /\ data' = Frame(base_data.columns, Preprocess(base_data.rows))
    /\ sidebar' = Summary(data'.rows)
    /\ messages' = messages \o <<BaseInfo, Msg("success", "current_summary", {}, Len(data'.rows))>>
    /\ pc' = "filter"
    /\ UNCHANGED <<baseFile, rosterFile, base_data, top_200_docs, working_data, month_summary,
                   merge_report, out, call>>

\* lines 142-146, 183-185: the upload cannot be read
UploadReadError ==
    /\ BaseSummaryShown
    /\ \E u \in Uploads :
        /\ u.status = "corrupt"
        /\ uploaded_file' = u
    /\ messages' = messages \o <<BaseInfo, Msg("error", "upload_processing_error", {}, 0)>>
    /\ pc' = "stopped"
    /\ UNCHANGED <<baseFile, rosterFile, base_data, top_200_docs, data, working_data,
                   month_summary, merge_report, sidebar, out, call>>

\* lines 151, 179-181: the upload fails validation
UploadRejected ==
    /\ BaseSummaryShown
    /\ \E u \in Uploads :
        /\ u.status = "ok"
        /\ ~validate_data(u, base_data).value
        /\ uploaded_file' = u
        /\ messages' = messages
              \o <<BaseInfo, Msg("info", "attempting", {}, Len(u.rows))>>
              \o validate_data(u, base_data).msgs
              \o <<Msg("error", "fix_data_format", {}, 0)>>
    /\ pc' = "stopped"
    /\ UNCHANGED <<baseFile, rosterFile, base_data, top_200_docs, data, working_data,
                   month_summary, merge_report, sidebar, out, call>>

MergeMsgs(u, m) ==
    <<BaseInfo, Msg("info", "attempting", {}, Len(u.rows)),
      Msg("success", "processed_new_data", {}, m.total)>>

\* lines 151-178, 190-202: the upload is valid and merged into the store
UploadMerged ==
    /\ BaseSummaryShown
    /\ \E u \in Uploads :
        /\ u.status = "ok"
        /\ validate_data(u, base_data).value
        /\ ~StrftimeRaises(date_min(u.rows))
        /\ uploaded_file' = u
        /\ \E m \in Merge(base_data.rows, u.rows) :
            /\ data' = Frame(base_data.columns, Preprocess(m.data))
            /\ merge_report' = [shown |-> TRUE, added |-> m.added,
                                duplicates_removed |-> m.duplicates_removed, total |-> m.total]
            /\ messages' = messages \o MergeMsgs(u, m)
                  \o <<Msg("success", "current_summary", {}, m.total)>>
    /\ sidebar' = Summary(data'.rows)
    /\ pc' = "filter"
    /\ UNCHANGED <<baseFile, rosterFile, base_data, top_200_docs, working_data, month_summary,
                   out, call>>

\* lines 151-176, 183-185: the upload is merged, but it has no date at all:
\* min() is NaT, strftime raises inside the try, and the run stops
UploadSummaryError ==
    /\ BaseSummaryShown
    /\ \E u \in Uploads :
        /\ u.status = "ok"
        /\ validate_data(u, base_data).value
        /\ StrftimeRaises(date_min(u.rows))
        /\ uploaded_file' = u
        /\ \E m \in Merge(base_data.rows, u.rows) :
            /\ data' = Frame(base_data.columns, m.data)
            /\ merge_report' = [shown |-> TRUE, added |-> m.added,
                                duplicates_removed |-> m.duplicates_removed, total |-> m.total]
            /\ messages' = messages \o MergeMsgs(u, m)
                  \o <<Msg("error", "upload_processing_error", {}, 0)>>
    /\ pc' = "stopped"
    /\ UNCHANGED <<baseFile, rosterFile, base_data, top_200_docs, working_data, month_summary,
                   sidebar, out, call>>

\* groupby(['Month', 'PROCEDURE']).size().reset_index(name='Count')
month_procedure_counts(rows) ==
    LET months == SortKeys("Month", GroupKeys(rows, "Month"))
        procs == SortKeys("PROCEDURE", GroupKeys(rows, "PROCEDURE"))
        pairs == [k \in 1..(Len(months) * Len(procs)) |->
                    [Month |-> months[((k - 1) \div Len(procs)) + 1],
                     PROCEDURE |-> procs[((k - 1) % Len(procs)) + 1]]]
        count(pr) == Cardinality({i \in 1..Len(rows) :
                        rows[i].Month = pr.Month /\ rows[i].PROCEDURE = pr.PROCEDURE})
        Seen(pr) == count(pr) > 0
        seen == Filter(pairs, Seen)
    IN  [i \in 1..Len(seen) |->
            [Month |-> seen[i].Month, PROCEDURE |-> seen[i].PROCEDURE, Count |-> count(seen[i])]]

\* no filter at all
IsAnyDay(r) == r.Day_of_Week = r.Day_of_Week

IsWorkingDay(r) == r.Day_of_Week \in working_days

\* lines 213-223
FilterWorkingDays ==
    /\ pc = "filter"
    /\ working_data' = Filter(data.rows, IsWorkingDay)
    /\ month_summary' = month_procedure_counts(working_data')
    /\ pc' = "tab1"
    /\ UNCHANGED <<baseFile, rosterFile, uploaded_file, base_data, top_200_docs, data,
                   messages, merge_report, sidebar, out, call>>

\* ------------------------------------------------- lines 233-312: tab 1
Tab1 ==
    /\ pc = "tab1"
    /\ LET options == unique(Column(month_summary, "Month"))
       IN  \E selected_month \in (IF options = <<>> THEN {NoMonth} ELSE Range(options)) :
            LET ThisMonth(r) == r.Month = selected_month
                filtered_data == Filter(month_summary, ThisMonth)
                monthly_data == InMonth(working_data, selected_month)
            IN  \E top_doctors \in sort_values_desc(groupby_size(monthly_data, "REFERRING_PHYSICIAN")),
                   top_insurances \in sort_values_desc(groupby_size(monthly_data, "Data_Set")) :
                    out' = [tab |-> "tab1",
                            options |-> options,
                            selected_month |-> selected_month,
                            filtered_data |-> filtered_data,
                            total_procedures |-> Len(monthly_data),
                            unique_doctors |-> nunique(monthly_data, "REFERRING_PHYSICIAN"),
                            unique_insurances |-> nunique(monthly_data, "Data_Set"),
                            top_doctors |-> head(top_doctors, TopN),
                            top_insurances |-> head(top_insurances, TopN)]
    /\ pc' = "tab2"
    /\ UNCHANGED <<baseFile, rosterFile, uploaded_file, base_data, top_200_docs, data,
                   working_data, month_summary, messages, merge_report, sidebar, call>>

\* ------------------------------------------------- lines 314-549: tab 2
\* lines 370-377, 638-645
MonthMetrics(rows) ==
    [Total_Procedures |-> Len(rows),
     Unique_Physicians |-> nunique(rows, "REFERRING_PHYSICIAN"),
     Unique_Procedures |-> nunique(rows, "PROCEDURE"),
     Unique_Insurances |-> nunique(rows, "Data_Set")]

\* line 385: the text of the delta, "N/A" when there is no percentage
delta_text(old_value, new_value) ==
    LET pct_change == calculate_percentage_change(old_value, new_value)
    IN  IF pct_change # None
        THEN [na |-> FALSE, delta |-> new_value - old_value, pct |-> pct_change]
        ELSE [na |-> TRUE, delta |-> 0, pct |-> None]

\* lines 398-407: a delta given to st.metric as a number, the difference alone
\* with no percentage (the delta_text of lines 393-397 is computed and not used)
delta_number(old_value, new_value) ==
    [na |-> FALSE, delta |-> new_value - old_value, pct |-> None]

\* lines 424-430
doctor_comparison(older_month_counts, newest_month_counts) ==
    LET top_10_doctors == nlargest(newest_month_counts, TopN)
    IN  [i \in 1..Len(top_10_doctors) |->
            [key |-> top_10_doctors[i].key,
             older |-> Get(older_month_counts, top_10_doctors[i].key),
             newest |-> top_10_doctors[i].Count]]

\* lines 518-527
insurance_comparison(older_month_data, newest_month_data) ==
    outer_join_fillna("Data_Set",
                      nlargest(groupby_size(older_month_data, "Data_Set"), TopN),
                      nlargest(groupby_size(newest_month_data, "Data_Set"), TopN))

\* lines 357-363
compare_data(compare_months, procedure_filter) ==
    LET Keep(r) == /\ r.Month \in Range(compare_months)
                   /\ (procedure_filter = "All Procedures" \/ r.PROCEDURE = procedure_filter)
    IN  Filter(working_data, Keep)

Tab2Warning ==
    /\ pc = "tab2"
    /\ LET options == unique(Column(working_data, "Month"))
       IN  \E compare_months \in Selections(options) :
            /\ Len(compare_months) # 2
            /\ out' = [tab |-> "tab2", options |-> options, default |-> tail(options, 2),
                       compare_months |-> compare_months, compared |-> FALSE]
    /\ messages' = Append(messages, Msg("warning", "select_two_months", {}, 0))
    /\ pc' = "tab3"
    /\ UNCHANGED <<baseFile, rosterFile, uploaded_file, base_data, top_200_docs, data,
                   working_data, month_summary, merge_report, sidebar, call>>

\* the filter of lines 357-363 assigned to working_data itself
Tab2CompareInPlace ==
    /\ pc = "tab2"
    /\ LET options == unique(Column(working_data, "Month"))
       IN  \E compare_months \in Selections(options) :
            /\ Len(compare_months) = 2
            /\ \E procedure_filter \in {"All Procedures"} \cup Range(unique(Column(working_data, "PROCEDURE"))) :
                /\ working_data' = compare_data(compare_months, procedure_filter)
                /\ out' = [tab |-> "tab2", options |-> options, default |-> tail(options, 2),
                           compare_months |-> compare_months, compared |-> FALSE]
    /\ pc' = "tab3"
    /\ UNCHANGED <<baseFile, rosterFile, uploaded_file, base_data, top_200_docs, data,
                   month_summary, messages, merge_report, sidebar, call>>

Tab2Compare ==
    /\ pc = "tab2"
    /\ LET options == unique(Column(working_data, "Month"))
       IN  \E compare_months \in Selections(options) :
            /\ Len(compare_months) = 2
            /\ \E procedure_filter \in {"All Procedures"} \cup Range(unique(Column(working_data, "PROCEDURE"))) :
                LET compared == compare_data(compare_months, procedure_filter)
                    older_month == compare_months[1]
                    newest_month == compare_months[2]
                    older_month_data == InMonth(compared, older_month)
                    newest_month_data == InMonth(compared, newest_month)
                    metrics == [m \in Range(compare_months) |-> MonthMetrics(InMonth(compared, m))]
                    comparison == all_doctors_comparison(older_month_data, newest_month_data)
                IN  out' = [tab |-> "tab2", options |-> options, default |-> tail(options, 2),
                            compare_months |-> compare_months, compared |-> TRUE,
                            procedure_filter |-> procedure_filter,
                            metrics |-> metrics,
                            total_procedures |->
                                [value |-> metrics[newest_month].Total_Procedures,
                                 delta |-> delta_text(metrics[older_month].Total_Procedures,
                                                      metrics[newest_month].Total_Procedures)],
                            unique_physicians |->
                                [value |-> metrics[newest_month].Unique_Physicians,
                                 delta |-> delta_number(metrics[older_month].Unique_Physicians,
                                                        metrics[newest_month].Unique_Physicians)],
                            unique_insurances |->
                                [value |-> metrics[newest_month].Unique_Insurances,
                                 delta |-> delta_number(metrics[older_month].Unique_Insurances,
                                                        metrics[newest_month].Unique_Insurances)],
                            doctor_comparison |->
                                doctor_comparison(groupby_size(older_month_data, "REFERRING_PHYSICIAN"),
                                                  groupby_size(newest_month_data, "REFERRING_PHYSICIAN")),
                            all_doctors_comparison |-> comparison,
                            gainers |-> nlargest_change(comparison, TopN),
                            losers |-> nsmallest_change(comparison, TopN),
                            insurance_comparison |->
                                insurance_comparison(older_month_data, newest_month_data)]
    /\ pc' = "tab3"
    /\ UNCHANGED <<baseFile, rosterFile, uploaded_file, base_data, top_200_docs, data,
                   working_data, month_summary, messages, merge_report, sidebar, call>>

\* ------------------------------------------------- lines 551-764: tab 3
\* lines 763-764: no roster, the tab shows an error
Tab3NoRoster ==
    /\ pc = "tab3"
    /\ top_200_docs.none
    /\ out' = [tab |-> "tab3", shown |-> FALSE]
    /\ messages' = Append(messages, Msg("error", "ensure_roster_file", {}, 0))
    /\ pc' = "tab4"
    /\ UNCHANGED <<baseFile, rosterFile, uploaded_file, base_data, top_200_docs, data,
                   working_data, month_summary, merge_report, sidebar, call>>

\* line 574: unique()[-1] of no month raises IndexError
Tab3Crash ==
    /\ pc = "tab3"
    /\ ~top_200_docs.none
    /\ unique(Column(working_data, "Month")) = <<>>
    /\ out' = [tab |-> "tab3", shown |-> FALSE]
    /\ messages' = Append(messages, Msg("exception", "IndexError", {}, 0))
    /\ pc' = "crashed"
    /\ UNCHANGED <<baseFile, rosterFile, uploaded_file, base_data, top_200_docs, data,
                   working_data, month_summary, merge_report, sidebar, call>>

NoDoctor == "None"

\* lines 566-569: st.selectbox over the roster's physicians (None when there is none)
DoctorChoices ==
    IF top_200_docs.rows = <<>> THEN {NoDoctor}
    ELSE Range(Column(top_200_docs.rows, "Referring_Physician"))

\* lines 581-584
doctor_data(selected_doctor, compare_months) ==
    LET Keep(r) == r.REFERRING_PHYSICIAN = selected_doctor /\ r.Month \in Range(compare_months)
    IN  Filter(working_data, Keep)

Tab3Opens ==
    /\ pc = "tab3"
    /\ ~top_200_docs.none
    /\ unique(Column(working_data, "Month")) # <<>>

\* lines 761-762
Tab3Warning ==
    /\ Tab3Opens
    /\ \E selected_doctor \in DoctorChoices :
        out' = [tab |-> "tab3", shown |-> TRUE, selected_doctor |-> selected_doctor,
                options |-> unique(Column(working_data, "Month")),
                default |-> tail(unique(Column(working_data, "Month")), 1),
                compare_months |-> <<>>]
    /\ messages' = Append(messages, Msg("warning", "select_one_month", {}, 0))
    /\ pc' = "tab4"
    /\ UNCHANGED <<baseFile, rosterFile, uploaded_file, base_data, top_200_docs, data,
                   working_data, month_summary, merge_report, sidebar, call>>

\* lines 586-631: one month of one physician
Tab3Single ==
    /\ Tab3Opens
    /\ LET options == unique(Column(working_data, "Month"))
       IN  \E selected_doctor \in DoctorChoices, compare_months \in Selections(options) :
            /\ Len(compare_months) = 1
            /\ LET month_data == InMonth(doctor_data(selected_doctor, compare_months),
                                         compare_months[1])
               IN  out' = [tab |-> "tab3", shown |-> TRUE, selected_doctor |-> selected_doctor,
                           options |-> options, default |-> tail(options, 1),
                           compare_months |-> compare_months,
                           total_referrals |-> Len(month_data),
                           unique_procedures |-> nunique(month_data, "PROCEDURE"),
                           unique_insurances |-> nunique(month_data, "Data_Set"),
                           procedure_comp |-> groupby_size(month_data, "PROCEDURE"),
                           insurance_comp |-> groupby_size(month_data, "Data_Set")]
    /\ pc' = "tab4"
    /\ UNCHANGED <<baseFile, rosterFile, uploaded_file, base_data, top_200_docs, data,
                   working_data, month_summary, messages, merge_report, sidebar, call>>

\* lines 633-759: two months of one physician
Tab3Compare ==
    /\ Tab3Opens
    /\ LET options == unique(Column(working_data, "Month"))
       IN  \E selected_doctor \in DoctorChoices, compare_months \in Selections(options) :
            /\ Len(compare_months) = 2
            /\ LET rows == doctor_data(selected_doctor, compare_months)
                   older_month == compare_months[1]
                   newest_month == compare_months[2]
                   metrics == [m \in Range(compare_months) |-> MonthMetrics(InMonth(rows, m))]
                   older_rows == InMonth(rows, older_month)
                   newest_rows == InMonth(rows, newest_month)
               IN  out' = [tab |-> "tab3", shown |-> TRUE, selected_doctor |-> selected_doctor,
                           options |-> options, default |-> tail(options, 1),
                           compare_months |-> compare_months,
                           metrics |-> metrics,
                           total_procedures |->
                               [value |-> metrics[newest_month].Total_Procedures,
                                delta |-> metrics[newest_month].Total_Procedures
                                          - metrics[older_month].Total_Procedures],
                           unique_procedures |->
                               [value |-> metrics[newest_month].Unique_Procedures,
                                delta |-> metrics[newest_month].Unique_Procedures
                                          - metrics[older_month].Unique_Procedures],
                           unique_insurances |->
                               [value |-> metrics[newest_month].Unique_Insurances,
                                delta |-> metrics[newest_month].Unique_Insurances
                                          - metrics[older_month].Unique_Insurances],
                           procedures_comp |->
                               outer_join_fillna("PROCEDURE",
                                                 groupby_size(older_rows, "PROCEDURE"),
                                                 groupby_size(newest_rows, "PROCEDURE")),
                           insurance_comp |->
                               outer_join_fillna("Data_Set",
                                                 groupby_size(older_rows, "Data_Set"),
                                                 groupby_size(newest_rows, "Data_Set"))]
    /\ pc' = "tab4"
    /\ UNCHANGED <<baseFile, rosterFile, uploaded_file, base_data, top_200_docs, data,
                   working_data, month_summary, messages, merge_report, sidebar, call>>

\* ------------------------------------------------- lines 766-942: tab 4
\* lines 941-942
Tab4Warning ==
    /\ pc = "tab4"
    /\ LET options == unique(Column(working_data, "Month"))
       IN  \E compare_months \in Selections(options) :
            /\ Len(compare_months) # 2
            /\ out' = [tab |-> "tab4", options |-> options, default |-> tail(options, 2),
                       compare_months |-> compare_months, compared |-> FALSE]
    /\ messages' = Append(messages, Msg("warning", "select_two_months", {}, 0))
    /\ pc' = "done"
    /\ UNCHANGED <<baseFile, rosterFile, uploaded_file, base_data, top_200_docs, data,
                   working_data, month_summary, merge_report, sidebar, call>>

\* line 790: top_200_docs is None (TypeError) or has no row (.iloc[0], IndexError)
Tab4Crash ==
    /\ pc = "tab4"
    /\ \E compare_months \in Selections(unique(Column(working_data, "Month"))) :
        Len(compare_months) = 2
    /\ top_200_docs.none \/ top_200_docs.rows = <<>>
    /\ out' = [tab |-> "tab4", compared |-> FALSE]
    /\ messages' = Append(messages,
                          Msg("exception", IF top_200_docs.none THEN "TypeError" ELSE "IndexError",
                              {}, 0))
    /\ pc' = "crashed"
    /\ UNCHANGED <<baseFile, rosterFile, uploaded_file, base_data, top_200_docs, data,
                   working_data, month_summary, merge_report, sidebar, call>>

\* the representative's filter left out: every physician of the roster
docs_of_any(rep) == Column(top_200_docs.rows, "Referring_Physician")

\* lines 793-803: the physicians of the roster rows whose representative is rep
docs_of(rep) ==
    LET Keep(r) == r.responsible = rep
    IN  Column(Filter(top_200_docs.rows, Keep), "Referring_Physician")

CategoryNames == <<"Alex", "Luis", "Gerardo">>

\* lines 806-810
categories ==
    [c \in Range(CategoryNames) |->
        IF c = "Alex" THEN docs_of("ALEX")
        ELSE IF c = "Luis" THEN docs_of("LUIS")
        ELSE docs_of("GERARDO")]

\* lines 853-856, 828-836
category_month_data(doctors, month) ==
    LET Keep(r) == r.Month = month /\ r.REFERRING_PHYSICIAN \in Range(doctors)
    IN  Filter(working_data, Keep)

\* lines 858-865
performance_row(category, month) ==
    LET doctors == categories[category]
        month_data == category_month_data(doctors, month)
    IN  [Category |-> category,
         Month |-> month,
         Total_Procedures |-> Len(month_data),
         Unique_Doctors_Active |-> nunique(month_data, "REFERRING_PHYSICIAN"),
         Avg_Procedures_per_Doctor |->
             IF Len(doctors) > 0 THEN Ratio(Len(month_data), Len(doctors)) ELSE <<0, 1>>,
         Unique_Insurances |-> nunique(month_data, "Data_Set")]

\* lines 850-865: one row per category and month, categories outermost
performance_data(compare_months) ==
    [k \in 1..(Len(CategoryNames) * 2) |->
        performance_row(CategoryNames[((k - 1) \div 2) + 1], compare_months[((k - 1) % 2) + 1])]

Tab4Compare ==
    /\ pc = "tab4"
    /\ ~top_200_docs.none
    /\ top_200_docs.rows # <<>>
    /\ LET options == unique(Column(working_data, "Month"))
       IN  \E compare_months \in Selections(options) :
            /\ Len(compare_months) = 2
            /\ LET older_month == compare_months[1]
                   newest_month == compare_months[2]
               IN  out' = [tab |-> "tab4", options |-> options, default |-> tail(options, 2),
                           compare_months |-> compare_months, compared |-> TRUE,
                           categories |-> categories,
                           sizes |-> [c \in Range(CategoryNames) |-> Len(categories[c])],
                           referrals |->
                               [c \in Range(CategoryNames) |->
                                   [value |-> Len(category_month_data(categories[c], newest_month)),
                                    delta |-> Len(category_month_data(categories[c], newest_month))
                                              - Len(category_month_data(categories[c], older_month))]],
                           performance_data |-> performance_data(compare_months)]
    /\ pc' = "done"
    /\ UNCHANGED <<baseFile, rosterFile, uploaded_file, base_data, top_200_docs, data,
                   working_data, month_summary, messages, merge_report, sidebar, call>>

\* ------------------------------------------------------------ the program
Next ==
    \/ LoadBaseData
    \/ LoadTop200Docs
    \/ NoBaseData
    \/ BaseSummaryCrash
    \/ NoUpload
    \/ UploadReadError
    \/ UploadRejected
    \/ UploadMerged
    \/ UploadSummaryError
    \/ FilterWorkingDays
    \/ Tab1
    \/ Tab2Warning
    \/ Tab2Compare
    \/ Tab3NoRoster
    \/ Tab3Crash
    \/ Tab3Warning
    \/ Tab3Single
    \/ Tab3Compare
    \/ Tab4Warning
    \/ Tab4Crash
    \/ Tab4Compare

Spec == Init /\ [][Next]_vars

\* ------------------------------------------ runs over the rosters at large
\* a run without an upload, over a few base workbooks and every roster of up
\* to MaxRosterRows rows
InitRoster ==
    /\ pc = "load_base_data"
    /\ baseFile \in RosterBaseFiles
    /\ rosterFile \in RichRosterFiles
    /\ call = NoCall
    /\ Blank

NextRoster ==
    \/ LoadBaseData
    \/ LoadTop200Docs
    \/ NoUpload
    \/ FilterWorkingDays
    \/ Tab1
    \/ Tab2Warning
    \/ Tab2Compare
    \/ Tab3NoRoster
    \/ Tab3Crash
    \/ Tab3Warning
    \/ Tab3Single
    \/ Tab3Compare
    \/ Tab4Warning
    \/ Tab4Crash
    \/ Tab4Compare

SpecRoster == InitRoster /\ [][NextRoster]_vars

\* --------------------------------------------- the functions on their own
\* calculate_percentage_change and the merge of lines 153-161, applied to
\* arguments drawn from bounded sets
StoreRows == Rows \cup {NaTRow}

PctCalls ==
    {[fn |-> "calculate_percentage_change", done |-> FALSE,
      old_value |-> a, new_value |-> b, result |-> None] : a, b \in 0..MaxCount}

MergeCalls ==
    {[fn |-> "merge", done |-> FALSE, A |-> a, B |-> b, AB |-> <<>>, BA |-> <<>>] :
        a, b \in SeqUpTo(StoreRows, MaxMergeRows)}

\* the views that are counted and ranked: rows of one month, three physicians
\* and a missing one, two payers
ViewRowSet ==
    { Row(Date(2024, 1, 5), "MRI", "Dr. A", "InsX"),
      Row(Date(2024, 1, 5), "CT", "Dr. A", "InsY"),
      Row(Date(2024, 1, 5), "MRI", "Dr. B", "InsY"),
      Row(Date(2024, 1, 5), "MRI", "Dr. C", "InsX"),
      Row(Date(2024, 1, 5), "MRI", NaN, "InsY") }

Views == {Preprocess(s) : s \in SeqUpTo(ViewRowSet, MaxViewRows)}

\* the top n of the counts by physician or by payer; the dashboard's n is TopN
TopCalls ==
    {[fn |-> "top_counts", done |-> FALSE, view |-> v, column |-> c, n |-> n, result |-> <<>>] :
        v \in Views, c \in {"REFERRING_PHYSICIAN", "Data_Set"}, n \in (0..MaxTopN) \cup {TopN}}

\* the two months' rows that are compared by physician
DeltaRowSet ==
    { Row(Date(2024, 1, 5), "MRI", "Dr. A", "InsX"),
      Row(Date(2024, 1, 5), "MRI", "Dr. B", "InsY"),
      Row(Date(2024, 1, 5), "MRI", "Dr. C", "InsX") }

DeltaViews == {Preprocess(s) : s \in SeqUpTo(DeltaRowSet, MaxDeltaRows)}

ChangeCalls ==
    {[fn |-> "gainers_losers", done |-> FALSE, older |-> a, newest |-> b, n |-> n,
      gainers |-> <<>>, losers |-> <<>>] :
        a, b \in DeltaViews, n \in (0..MaxTopN) \cup {TopN}}

\* the two months' rows that are compared by payer: the first k payers with one
\* record each in the older month, and one payer with a record in the newest
PayerRows(month_start, k) ==
    Preprocess([i \in 1..k |-> Row(month_start, "MRI", "Dr. A", Payers[i])])

InsuranceCalls ==
    {[fn |-> "insurance_comparison", done |-> FALSE,
      older |-> PayerRows(Date(2024, 1, 5), k),
      newest |-> Preprocess(<<Row(Date(2024, 2, 1), "MRI", "Dr. A", Payers[j])>>),
      result |-> <<>>] : k \in 0..MaxPayers, j \in 1..MaxPayers}

InitFn ==
    /\ pc = "call"
    /\ baseFile = NoSheet("missing")
    /\ rosterFile = [status |-> "corrupt", headers |-> {}, rows |-> <<>>]
    /\ call \in PctCalls \cup MergeCalls \cup TopCalls \cup ChangeCalls \cup InsuranceCalls
    /\ Blank

ApplyPercentageChange ==
    /\ pc = "call"
    /\ call.fn = "calculate_percentage_change"
    /\ ~call.done
    /\ call' = [call EXCEPT !.done = TRUE,
                            !.result = calculate_percentage_change(call.old_value, call.new_value)]
    /\ UNCHANGED <<pc, baseFile, rosterFile, uploaded_file, base_data, top_200_docs, data,
                   working_data, month_summary, messages, merge_report, sidebar, out>>

ApplyMerge ==
    /\ pc = "call"
    /\ call.fn = "merge"
    /\ ~call.done
    /\ \E ab \in Merge(call.A, call.B), ba \in Merge(call.B, call.A) :
        call' = [call EXCEPT !.done = TRUE, !.AB = ab, !.BA = ba]
    /\ UNCHANGED <<pc, baseFile, rosterFile, uploaded_file, base_data, top_200_docs, data,
                   working_data, month_summary, messages, merge_report, sidebar, out>>

ApplyTopCounts ==
    /\ pc = "call"
    /\ call.fn = "top_counts"
    /\ ~call.done
    /\ \E t \in top_counts(call.view, call.column, call.n) :
        call' = [call EXCEPT !.done = TRUE, !.result = t]
    /\ UNCHANGED <<pc, baseFile, rosterFile, uploaded_file, base_data, top_200_docs, data,
                   working_data, month_summary, messages, merge_report, sidebar, out>>

\* lines 465-475
ApplyGainersLosers ==
    /\ pc = "call"
    /\ call.fn = "gainers_losers"
    /\ ~call.done
    /\ LET comparison == all_doctors_comparison(call.older, call.newest)
       IN  call' = [call EXCEPT !.done = TRUE,
                                !.gainers = nlargest_change(comparison, call.n),
                                !.losers = nsmallest_change(comparison, call.n)]
    /\ UNCHANGED <<pc, baseFile, rosterFile, uploaded_file, base_data, top_200_docs, data,
                   working_data, month_summary, messages, merge_report, sidebar, out>>

\* lines 518-527
ApplyInsuranceComparison ==
    /\ pc = "call"
    /\ call.fn = "insurance_comparison"
    /\ ~call.done
    /\ call' = [call EXCEPT !.done = TRUE,
                            !.result = insurance_comparison(call.older, call.newest)]
    /\ UNCHANGED <<pc, baseFile, rosterFile, uploaded_file, base_data, top_200_docs, data,
                   working_data, month_summary, messages, merge_report, sidebar, out>>

NextFn ==
    \/ ApplyPercentageChange
    \/ ApplyMerge
    \/ ApplyTopCounts
    \/ ApplyGainersLosers
    \/ ApplyInsuranceComparison

SpecFn == InitFn /\ [][NextFn]_vars

\* ------------------------------------------------------------------ claims

\* C1: calculate_percentage_change returns None exactly when the base count is 0
\* and otherwise the quotient (current - base) / base * 100; it is None for base
\* 0 whatever the current count, and 0 when both counts are equal and nonzero.
C1_PercentChange ==
    (call.fn = "calculate_percentage_change" /\ call.done) =>
        /\ (call.result = None) <=> (call.old_value = 0)
        /\ call.old_value # 0 =>
            /\ call.result[2] > 0
            /\ call.result[1] * call.old_value
                   = (call.new_value - call.old_value) * 100 * call.result[2]
        /\ (call.old_value # 0 /\ call.new_value = call.old_value) => call.result = <<0, 1>>

C1_Witness ==
    /\ call.fn = "calculate_percentage_change"
    /\ call.done
    /\ call.old_value = 4
    /\ call.new_value = 2
    /\ call.result = <<-50, 1>>

\* the rows of the base view (k = 1) or the current view (k = 2) of tab 2 that
\* belong to physician p, counted on the working-day store
ViewCount(k, p) ==
    Cardinality({i \in 1..Len(working_data) :
        /\ working_data[i].Month = out.compare_months[k]
        /\ (out.procedure_filter = "All Procedures"
            \/ working_data[i].PROCEDURE = out.procedure_filter)
        /\ working_data[i].REFERRING_PHYSICIAN = p})

Physicians == {"Dr. A", "Dr. B", "Dr. C"}

\* C2: the comparison of two months has exactly one row for each physician with
\* a record in the base view or in the current view, the count of a side without
\* a record of the physician is 0, and Change is the current count minus the
\* base count.
C2_EntityComparison ==
    (out.tab = "tab2" /\ out.compared) =>
        LET rows == out.all_doctors_comparison
        IN  /\ \A i \in 1..Len(rows) : rows[i].key \in Physicians
            /\ \A p \in Physicians :
                LET at == {i \in 1..Len(rows) : rows[i].key = p}
                IN  IF ViewCount(1, p) + ViewCount(2, p) = 0
                    THEN at = {}
                    ELSE /\ Cardinality(at) = 1
                         /\ \A i \in at :
                             /\ rows[i].older = ViewCount(1, p)
                             /\ rows[i].newest = ViewCount(2, p)
                             /\ rows[i].Change = ViewCount(2, p) - ViewCount(1, p)

C2_Witness ==
    /\ out.tab = "tab2"
    /\ out.compared
    /\ \E i, j \in 1..Len(out.all_doctors_comparison) :
        /\ out.all_doctors_comparison[i].older = 0
        /\ out.all_doctors_comparison[i].Change > 0
        /\ out.all_doctors_comparison[j].newest = 0
        /\ out.all_doctors_comparison[j].Change < 0

Ingested == pc \in {"filter", "tab1", "tab2", "tab3", "tab4", "done"}

RowComplete(r) ==
    /\ r.TRANSFORMED_DATE.y > 0
    /\ r.PROCEDURE # NaN
    /\ r.REFERRING_PHYSICIAN # NaN
    /\ r.Data_Set # NaN

RECURSIVE SumCounts(_)
SumCounts(series) ==
    IF series = <<>> THEN 0 ELSE series[1].Count + SumCounts(Tail(series))

\* C3: after a successful ingestion every record of the store has a valid date
\* and a procedure, a physician and a payer, and no aggregate drops a record:
\* the per-physician counts of a month add up to the month's total.
C3_StoreRowsComplete ==
    /\ Ingested => \A i \in 1..Len(data.rows) : RowComplete(data.rows[i])
    /\ out.tab = "tab1" => SumCounts(out.top_doctors) = out.total_procedures

\* the violations of a workbook read against the columns it must have
MissingOf(file, cols) == cols \ file.columns

BadDates(file) ==
    /\ "TRANSFORMED_DATE" \in file.columns
    /\ \E i \in 1..Len(file.rows) : file.rows[i].TRANSFORMED_DATE.y < 0

BaseFileFails ==
    \/ baseFile.status # "ok"
    \/ MissingOf(baseFile, required_columns) # {}
    \/ BadDates(baseFile)

UploadFails ==
    \/ uploaded_file.status = "corrupt"
    \/ /\ uploaded_file.status = "ok"
       /\ (MissingOf(uploaded_file, required_columns) # {} \/ BadDates(uploaded_file))

ErrorShown == \E i \in 1..Len(messages) : messages[i].level = "error"

RawRow(r) == Row(r.TRANSFORMED_DATE, r.PROCEDURE, r.REFERRING_PHYSICIAN, r.Data_Set)

\* C4: when the base load fails or the upload fails validation, no record enters
\* the store, an error is shown and no tab is computed in the run; the tabs are
\* computed only over the store of an ingestion that succeeded.
C4_IngestionAllOrNothing ==
    /\ (BaseFileFails /\ pc # "load_base_data") =>
        /\ base_data.none
        /\ data.none
        /\ ErrorShown
        /\ pc \in {"load_top_200_docs", "ingest", "stopped"}
    /\ UploadFails =>
        /\ data.none
        /\ ErrorShown
        /\ pc = "stopped"
    /\ (pc \in {"stopped", "load_base_data", "load_top_200_docs", "ingest"}) =>
        /\ out = NoOut
        /\ working_data = <<>>
    /\ (pc \in {"tab1", "tab2", "tab3", "tab4", "done"} \/ out # NoOut) =>
        /\ ~BaseFileFails
        /\ ~UploadFails
        /\ ~data.none
        /\ {RawRow(data.rows[i]) : i \in 1..Len(data.rows)}
               = Range(baseFile.rows) \cup Range(uploaded_file.rows)

C4_Witness ==
    /\ pc = "stopped"
    /\ ~BaseFileFails
    /\ UploadFails
    /\ uploaded_file.rows # <<>>
    /\ base_data.rows # <<>>

Listed(col) ==
    \E i \in 1..Len(messages) : messages[i].level = "error" /\ col \in messages[i].cols

Violations(file, cols) ==
    MissingOf(file, cols) \cup (IF BadDates(file) THEN {"TRANSFORMED_DATE"} ELSE {})

\* C5: when an input fails validation, the errors shown name every violation:
\* every missing column and every key column whose conversion fails.
C5_EveryViolationListed ==
    /\ (baseFile.status = "ok" /\ pc # "load_base_data") =>
        \A col \in Violations(baseFile, required_columns) : Listed(col)
    /\ (uploaded_file.status = "ok" /\ pc = "stopped") =>
        \A col \in Violations(uploaded_file, required_columns) : Listed(col)

\* C6: the merge reports duplicates_removed = |A| + |B| - |merge(A, B)|, the
\* total it reports is |merge(A, B)|, and no two rows of the merge are equal.
C6_MergeCounts ==
    merge_report.shown =>
        /\ merge_report.total = Len(data.rows)
        /\ merge_report.duplicates_removed
               = Len(base_data.rows) + Len(uploaded_file.rows) - Len(data.rows)
        /\ \A i, j \in 1..Len(data.rows) : i # j => data.rows[i] # data.rows[j]

C6_Witness ==
    /\ merge_report.shown
    /\ pc = "filter"
    /\ merge_report.duplicates_removed > 0
    /\ merge_report.total > 0

\* C7: merge(A, B) and merge(B, A) hold the same rows, each once.
C7_MergeCommutes ==
    (call.fn = "merge" /\ call.done) =>
        /\ Range(call.AB.data) = Range(call.BA.data)
        /\ Len(call.AB.data) = Len(call.BA.data)
        /\ Range(call.AB.data) = Range(call.A) \cup Range(call.B)

C7_Witness ==
    /\ call.fn = "merge"
    /\ call.done
    /\ call.A # call.B
    /\ Range(call.A) \cap Range(call.B) # {}
    /\ call.AB.data # call.BA.data

HasOptions == out.tab \in {"tab1", "tab2", "tab4"} \/ (out.tab = "tab3" /\ out.shown)

WorkingMonths == {working_data[i].Month : i \in 1..Len(working_data)}

Ascending(s) == \A i \in 1..(Len(s) - 1) : s[i] < s[i + 1]

\* C8: the months offered by a tab are the months of the working-day store,
\* each once, in chronological order, so that the default selection is the
\* latest month or months.
C8_PeriodsChronological ==
    (HasOptions /\ pc # "crashed") =>
        /\ Range(out.options) = WorkingMonths
        /\ Ascending(out.options)
        /\ out.tab # "tab1" => \A m \in Range(out.default), o \in WorkingMonths \ Range(out.default) : o < m

\* the weekday of a date counted from Monday = 0
Weekday(dt) == (Ordinal(dt) + 6) % 7

OnWeekday(r) == r.TRANSFORMED_DATE.y > 0 /\ Weekday(r.TRANSFORMED_DATE) \in 0..4

\* the number of Monday-to-Friday rows of the store that pass Test
WeekdayCount(Test(_)) ==
    Cardinality({i \in 1..Len(data.rows) : OnWeekday(data.rows[i]) /\ Test(data.rows[i])})

\* C9: the working-day rows are the rows dated Monday to Friday; the totals of
\* the four tabs count those rows only, and the sidebar summary counts all rows.
C9_WorkingDayFilter ==
    /\ pc \in {"tab1", "tab2", "tab3", "tab4", "done"} =>
        /\ working_data = SelectSeq(data.rows, OnWeekday)
        /\ sidebar.total_records = Len(data.rows)
        /\ sidebar.months_available = Cardinality({data.rows[i].Month : i \in 1..Len(data.rows)})
        /\ SumCounts(month_summary) = Len(SelectSeq(data.rows, OnWeekday))
    /\ out.tab = "tab1" =>
        LET T(r) == r.Month = out.selected_month
        IN  out.total_procedures = WeekdayCount(T)
    /\ (out.tab = "tab2" /\ out.compared) =>
        \A m \in Range(out.compare_months) :
            LET T(r) == /\ r.Month = m
                        /\ (out.procedure_filter = "All Procedures"
                            \/ r.PROCEDURE = out.procedure_filter)
            IN  out.metrics[m].Total_Procedures = WeekdayCount(T)
    /\ (out.tab = "tab3" /\ out.shown /\ Len(out.compare_months) = 2) =>
        \A m \in Range(out.compare_months) :
            LET T(r) == r.Month = m /\ r.REFERRING_PHYSICIAN = out.selected_doctor
            IN  out.metrics[m].Total_Procedures = WeekdayCount(T)
    /\ (out.tab = "tab3" /\ out.shown /\ Len(out.compare_months) = 1) =>
        LET T(r) == r.Month = out.compare_months[1] /\ r.REFERRING_PHYSICIAN = out.selected_doctor
        IN  out.total_referrals = WeekdayCount(T)
    /\ (out.tab = "tab4" /\ out.compared) =>
        \A k \in 1..Len(out.performance_data) :
            LET row == out.performance_data[k]
                T(r) == /\ r.Month = row.Month
                        /\ r.REFERRING_PHYSICIAN \in Range(out.categories[row.Category])
            IN  row.Total_Procedures = WeekdayCount(T)

C9_Witness ==
    /\ out.tab = "tab1"
    /\ out.selected_month = 202401
    /\ out.total_procedures = 1
    /\ sidebar.total_records = 2
    /\ \E i \in 1..Len(data.rows) :
        /\ data.rows[i].TRANSFORMED_DATE = Date(2024, 1, 6)
        /\ data.rows[i].Day_of_Week = "Saturday"

\* the store of the scenario: (2024-01-05, MRI, Dr. A, InsX),
\* (2024-01-06, MRI, Dr. A, InsY), (2024-02-01, MRI, Dr. A, InsX)
ScenarioStore ==
    /\ ~data.none
    /\ Len(data.rows) = 3
    /\ {RawRow(data.rows[i]) : i \in 1..Len(data.rows)}
           = { Row(Date(2024, 1, 5), "MRI", "Dr. A", "InsX"),
               Row(Date(2024, 1, 6), "MRI", "Dr. A", "InsY"),
               Row(Date(2024, 2, 1), "MRI", "Dr. A", "InsX") }

ScenarioTab3 ==
    /\ ScenarioStore
    /\ out.tab = "tab3"
    /\ out.shown
    /\ out.selected_doctor = "Dr. A"
    /\ out.compare_months = <<202401, 202402>>

ScenarioTab2 ==
    /\ ScenarioStore
    /\ out.tab = "tab2"
    /\ out.compared
    /\ out.procedure_filter = "All Procedures"
    /\ out.compare_months = <<202401, 202402>>

\* C10 as stated: on the scenario's store the months of Dr. A count 2 and 1, and
\* the comparison of 2024-01 with 2024-02 gives base 2, current 1, delta -1 and
\* -50 percent.
C10_ScenarioAsStated ==
    /\ ScenarioTab3 =>
        /\ out.metrics[202401].Total_Procedures = 2
        /\ out.metrics[202402].Total_Procedures = 1
        /\ out.total_procedures.delta = -1
        /\ calculate_percentage_change(out.metrics[202401].Total_Procedures,
                                       out.metrics[202402].Total_Procedures) = <<-50, 1>>
    /\ ScenarioTab2 =>
        out.all_doctors_comparison
            = <<[key |-> "Dr. A", older |-> 2, newest |-> 1, Change |-> -1]>>

\* C10 amended: the record of 2024-01-06 is a Saturday's and no working-day row,
\* so the months of Dr. A count 1 and 1, and the comparison gives base 1,
\* current 1, delta 0 and 0 percent.
C10_ScenarioWorkingDays ==
    /\ ScenarioTab3 =>
        /\ out.metrics[202401].Total_Procedures = 1
        /\ out.metrics[202402].Total_Procedures = 1
        /\ out.total_procedures.delta = 0
        /\ calculate_percentage_change(out.metrics[202401].Total_Procedures,
                                       out.metrics[202402].Total_Procedures) = <<0, 1>>
    /\ ScenarioTab2 =>
        /\ out.all_doctors_comparison
               = <<[key |-> "Dr. A", older |-> 1, newest |-> 1, Change |-> 0]>>
        /\ out.total_procedures.delta = [na |-> FALSE, delta |-> 0, pct |-> <<0, 1>>]

C10_Witness == ScenarioTab3

\* the representative whose physicians make up a category
RepOf(c) == IF c = "Alex" THEN "ALEX" ELSE IF c = "Luis" THEN "LUIS" ELSE "GERARDO"

\* the physicians the roster workbook maps to the category
MappedTo(c) ==
    {rosterFile.rows[i].Referring_Physician :
        i \in {j \in 1..Len(rosterFile.rows) : rosterFile.rows[j].responsible = RepOf(c)}}

RosterPhysicians == {rosterFile.rows[i].Referring_Physician : i \in 1..Len(rosterFile.rows)}

\* the physician list: the physicians with a working-day record
StorePhysicians == {working_data[i].REFERRING_PHYSICIAN : i \in 1..Len(working_data)}

Classified == out.tab = "tab4" /\ out.compared

ScenarioRoster ==
    /\ Classified
    /\ rosterFile.rows = <<RosterRow("Dr. A", "ALEX"), RosterRow("Dr. B", "LUIS")>>
    /\ StorePhysicians = {"Dr. A", "Dr. C"}

\* C11 as stated: a category holds only physicians that are in the physician
\* list and mapped to the category by the roster, and a physician absent from
\* the roster is in no category; for the roster {Dr. A -> ALEX, Dr. B -> LUIS}
\* and the physicians {Dr. A, Dr. C} the categories are Alex: {Dr. A}, Luis: {},
\* Gerardo: {}.
C11_ClassifyAsStated ==
    /\ Classified =>
        \A c \in Range(CategoryNames) :
            /\ Range(out.categories[c]) \subseteq (StorePhysicians \cap MappedTo(c))
            /\ Range(out.categories[c]) \cap (Physicians \ RosterPhysicians) = {}
    /\ ScenarioRoster =>
        /\ Range(out.categories["Alex"]) = {"Dr. A"}
        /\ Range(out.categories["Luis"]) = {}
        /\ Range(out.categories["Gerardo"]) = {}

\* C11 amended: a category holds exactly the physicians the roster maps to it,
\* with or without a record in the store, and a physician absent from the roster
\* is in no category; the records counted for a category are those of the
\* physicians that are both in the store and mapped to it.  For the roster
\* {Dr. A -> ALEX, Dr. B -> LUIS} and the physicians {Dr. A, Dr. C} the
\* categories are Alex: {Dr. A}, Luis: {Dr. B}, Gerardo: {}, and no record of
\* Dr. B or Dr. C is counted.
C11_ClassifyByRoster ==
    /\ Classified =>
        \A c \in Range(CategoryNames) :
            /\ Range(out.categories[c]) = MappedTo(c)
            /\ Range(out.categories[c]) \cap (Physicians \ RosterPhysicians) = {}
            /\ out.referrals[c].value
                   = Cardinality({i \in 1..Len(working_data) :
                        /\ working_data[i].Month = out.compare_months[2]
                        /\ working_data[i].REFERRING_PHYSICIAN
                               \in (StorePhysicians \cap MappedTo(c))})
    /\ ScenarioRoster =>
        /\ out.categories = [c \in Range(CategoryNames) |->
                                IF c = "Alex" THEN <<"Dr. A">>
                                ELSE IF c = "Luis" THEN <<"Dr. B">> ELSE <<>>]
        /\ \A k \in 1..Len(out.performance_data) :
              out.performance_data[k].Category # "Alex"
                  => out.performance_data[k].Total_Procedures = 0

C11_Witness ==
    /\ ScenarioRoster
    /\ out.compare_months = <<202401, 202402>>
    /\ out.referrals["Alex"].value = 1

NoRepeat(s) == \A i, j \in 1..Len(s) : i # j => s[i] # s[j]

\* the rows of the performance table that count working-day record i
CountedIn(i) ==
    {k \in 1..Len(out.performance_data) :
        /\ out.performance_data[k].Month = working_data[i].Month
        /\ working_data[i].REFERRING_PHYSICIAN
               \in Range(out.categories[out.performance_data[k].Category])}

\* C12: whatever the roster, a roster with several rows of one physician
\* included, the three category lists are pairwise disjoint and no physician
\* occurs twice in a list, so that no record is counted in two categories.
C12_CategoriesDisjoint ==
    Classified =>
        /\ \A c, d \in Range(CategoryNames) :
              c # d => Range(out.categories[c]) \cap Range(out.categories[d]) = {}
        /\ \A c \in Range(CategoryNames) :
              /\ NoRepeat(out.categories[c])
              /\ out.sizes[c] = Cardinality(Range(out.categories[c]))
        /\ \A i \in 1..Len(working_data) : Cardinality(CountedIn(i)) <= 1

\* the working-day records of a month whose physician the roster maps to c
CohortRecords(c, month) ==
    {i \in 1..Len(working_data) :
        /\ working_data[i].Month = month
        /\ working_data[i].REFERRING_PHYSICIAN \in MappedTo(c)}

\* C13: for every category and selected month the table reports the number of
\* working-day records of the month whose physician is in the category, the
\* number of distinct physicians among them, and the average: that total over
\* the number of physicians assigned to the category, 0 for an empty category.
C13_CategoryMetrics ==
    Classified =>
        /\ Len(out.performance_data) = 6
        /\ \A c \in Range(CategoryNames), m \in Range(out.compare_months) :
              \E k \in 1..Len(out.performance_data) :
                  /\ out.performance_data[k].Category = c
                  /\ out.performance_data[k].Month = m
        /\ \A k \in 1..Len(out.performance_data) :
              LET row == out.performance_data[k]
                  recs == CohortRecords(row.Category, row.Month)
                  cohort == Cardinality(MappedTo(row.Category))
              IN  /\ row.Total_Procedures = Cardinality(recs)
                  /\ row.Unique_Doctors_Active
                         = Cardinality({working_data[i].REFERRING_PHYSICIAN : i \in recs})
                  /\ row.Avg_Procedures_per_Doctor
                         = IF cohort = 0 THEN <<0, 1>> ELSE Ratio(Cardinality(recs), cohort)

\* the roster workbook is readable and has none of the four column names
NoAlias == rosterFile.status = "ok" /\ Range(possible_names) \cap rosterFile.headers = {}

Shown(level, code) ==
    \E i \in 1..Len(messages) : messages[i].level = level /\ messages[i].code = code

ExceptionRaised == \E i \in 1..Len(messages) : messages[i].level = "exception"

\* C14: when the roster workbook has none of the recognised column names, the
\* load shows an error and yields no roster, the doctor performance tab and the
\* category analysis tab end in a reported error, no category is computed and
\* no exception is raised.
C14_NoAliasReported ==
    (NoAlias /\ pc \notin {"load_base_data", "load_top_200_docs"}) =>
        /\ top_200_docs.none
        /\ Shown("error", "roster_no_responsible_column")
        /\ ~ExceptionRaised
        /\ pc # "crashed"
        /\ (out.tab = "tab3" \/ pc \in {"tab4", "done"}) => Shown("error", "ensure_roster_file")
        /\ out.tab = "tab3" => ~out.shown
        /\ out.tab = "tab4" => ~out.compared

\* C15: over a loaded store (and a loaded roster) no tab raises an error, a
\* store without working-day records and a selection without records included:
\* the result is empty or zero, and the percentage is "N/A" when the base is 0.
C15_EmptySelectionsRenderable ==
    /\ (~data.none /\ ~top_200_docs.none) => (pc # "crashed" /\ ~ExceptionRaised)
    /\ (out.tab = "tab1" /\ working_data = <<>>) =>
        /\ out.total_procedures = 0
        /\ out.filtered_data = <<>>
        /\ out.top_doctors = <<>>
        /\ out.top_insurances = <<>>
    /\ (out.tab = "tab2" /\ out.compared) =>
        (out.total_procedures.delta.na
            <=> out.metrics[out.compare_months[1]].Total_Procedures = 0)
    /\ (out.tab = "tab3" /\ out.shown /\ Len(out.compare_months) = 1) =>
        (out.total_referrals = 0 <=> out.procedure_comp = <<>>)

\* the rows of the base view (k = 1) or the current view (k = 2) of tab 2
ViewRows(k) ==
    {i \in 1..Len(working_data) :
        /\ working_data[i].Month = out.compare_months[k]
        /\ (out.procedure_filter = "All Procedures"
            \/ working_data[i].PROCEDURE = out.procedure_filter)}

\* the Delta Row of a base and a current value
DeltaRow(base, current) ==
    IF base = 0 THEN [na |-> TRUE, delta |-> 0, pct |-> None]
    ELSE [na |-> FALSE, delta |-> current - base, pct |-> Ratio((current - base) * 100, base)]

DistinctIn(k, c) == Cardinality({working_data[i][c] : i \in ViewRows(k)} \ {NaN})

\* C16: the comparison of two months shows, for the total row count, the
\* distinct-physician count and the distinct-payer count alike, the current
\* value with the delta current - base and the percentage
\* percentChange(base, current), "N/A" when the base value is 0.
C16_AggregateDeltaRows ==
    (out.tab = "tab2" /\ out.compared) =>
        /\ out.total_procedures.value = Cardinality(ViewRows(2))
        /\ out.total_procedures.delta
               = DeltaRow(Cardinality(ViewRows(1)), Cardinality(ViewRows(2)))
        /\ out.unique_physicians.value = DistinctIn(2, "REFERRING_PHYSICIAN")
        /\ out.unique_physicians.delta
               = DeltaRow(DistinctIn(1, "REFERRING_PHYSICIAN"), DistinctIn(2, "REFERRING_PHYSICIAN"))
        /\ out.unique_insurances.value = DistinctIn(2, "Data_Set")
        /\ out.unique_insurances.delta
               = DeltaRow(DistinctIn(1, "Data_Set"), DistinctIn(2, "Data_Set"))

\* the entities of a view: the values of the column that are not missing
Entities(view, c) == {view[i][c] : i \in 1..Len(view)} \ {NaN}

RecordCount(view, c, e) == Cardinality({i \in 1..Len(view) : view[i][c] = e})

Min(a, b) == IF a < b THEN a ELSE b

\* C17: the top n of a view has min(n, number of entities) rows, at most n; each
\* row is an entity of the view, once, with its exact record count; the counts
\* do not increase along the rows; no entity left out has a greater count than
\* a row; an empty view gives no row and so does n = 0.
C17_TopN ==
    (call.fn = "top_counts" /\ call.done) =>
        LET ents == Entities(call.view, call.column)
            rows == call.result
            keys == {rows[i].key : i \in 1..Len(rows)}
        IN  /\ Len(rows) = Min(call.n, Cardinality(ents))
            /\ Cardinality(keys) = Len(rows)
            /\ \A i \in 1..Len(rows) :
                  /\ rows[i].key \in ents
                  /\ rows[i].Count = RecordCount(call.view, call.column, rows[i].key)
            /\ \A i \in 1..(Len(rows) - 1) : rows[i].Count >= rows[i + 1].Count
            /\ \A e \in ents \ keys, i \in 1..Len(rows) :
                  RecordCount(call.view, call.column, e) <= rows[i].Count
            /\ call.view = <<>> => groupby_size(call.view, call.column) = <<>>
            /\ (call.view = <<>> \/ call.n = 0) => rows = <<>>

C17_Witness ==
    /\ call.fn = "top_counts"
    /\ call.done
    /\ call.column = "REFERRING_PHYSICIAN"
    /\ call.n = 1
    /\ Cardinality(Entities(call.view, call.column)) = 2
    /\ call.result = <<[key |-> "Dr. A", Count |-> 2]>>

\* the absolute delta of a physician between the two compared views
DeltaOf(e) ==
    RecordCount(call.newest, "REFERRING_PHYSICIAN", e)
        - RecordCount(call.older, "REFERRING_PHYSICIAN", e)

JoinEntities ==
    Entities(call.older, "REFERRING_PHYSICIAN") \cup Entities(call.newest, "REFERRING_PHYSICIAN")

\* rows are min(n, entities) delta rows of distinct entities of the outer join
DeltaRowsOf(rows, n) ==
    /\ Len(rows) = Min(n, Cardinality(JoinEntities))
    /\ Cardinality({rows[i].key : i \in 1..Len(rows)}) = Len(rows)
    /\ \A i \in 1..Len(rows) :
          /\ rows[i].key \in JoinEntities
          /\ rows[i].older = RecordCount(call.older, "REFERRING_PHYSICIAN", rows[i].key)
          /\ rows[i].newest = RecordCount(call.newest, "REFERRING_PHYSICIAN", rows[i].key)
          /\ rows[i].Change = DeltaOf(rows[i].key)

\* C18: the gainers are the (at most) n delta rows of the greatest absolute
\* delta in descending order, the losers the (at most) n delta rows of the
\* smallest absolute delta in ascending order, both taken over every entity of
\* the full outer join of the two months.
C18_GainersLosers ==
    (call.fn = "gainers_losers" /\ call.done) =>
        LET g == call.gainers
            l == call.losers
        IN  /\ DeltaRowsOf(g, call.n)
            /\ DeltaRowsOf(l, call.n)
            /\ \A i \in 1..(Len(g) - 1) : g[i].Change >= g[i + 1].Change
            /\ \A i \in 1..(Len(l) - 1) : l[i].Change <= l[i + 1].Change
            /\ \A e \in JoinEntities \ {g[i].key : i \in 1..Len(g)}, i \in 1..Len(g) :
                  DeltaOf(e) <= g[i].Change
            /\ \A e \in JoinEntities \ {l[i].key : i \in 1..Len(l)}, i \in 1..Len(l) :
                  DeltaOf(e) >= l[i].Change

C18_Witness ==
    /\ call.fn = "gainers_losers"
    /\ call.done
    /\ call.n = 1
    /\ Cardinality(JoinEntities) = 2
    /\ call.gainers = <<[key |-> "Dr. B", older |-> 0, newest |-> 1, Change |-> 1]>>
    /\ call.losers = <<[key |-> "Dr. A", older |-> 1, newest |-> 0, Change |-> -1]>>

Querying == pc \in {"tab1", "tab2", "tab3", "tab4"}

C20_PayerCounts ==
    (call.fn = "insurance_comparison" /\ call.done) =>
        \A i \in 1..Len(call.result) :
            /\ call.result[i].older = RecordCount(call.older, "Data_Set", call.result[i].key)
            /\ call.result[i].newest = RecordCount(call.newest, "Data_Set", call.result[i].key)

RECURSIVE SumField(_, _)
SumField(rows, f) == IF rows = <<>> THEN 0 ELSE rows[1][f] + SumField(Tail(rows), f)

Grouped == pc \in {"tab1", "tab2", "tab3", "tab4", "done"}

\* C21: grouped counting conserves rows: every group of the month-by-procedure
\* summary, and of the counts of a month by physician or by payer, has a count
\* of at least 1, and the counts of the groups add up to the number of records
\* of the view that was grouped, so that every working-day record is counted in
\* exactly one group.
C21_GroupedCountsConserve ==
    /\ Grouped =>
        /\ \A i \in 1..Len(month_summary) : month_summary[i].Count >= 1
        /\ \A i, j \in 1..Len(month_summary) :
              (i # j) => (month_summary[i].Month # month_summary[j].Month
                          \/ month_summary[i].PROCEDURE # month_summary[j].PROCEDURE)
        /\ SumField(month_summary, "Count") = Len(working_data)
    /\ out.tab = "tab1" =>
        /\ \A i \in 1..Len(out.top_doctors) : out.top_doctors[i].Count >= 1
        /\ \A i \in 1..Len(out.top_insurances) : out.top_insurances[i].Count >= 1
        /\ Len(out.top_doctors) < TopN =>
              SumField(out.top_doctors, "Count") = out.total_procedures
        /\ Len(out.top_insurances) < TopN =>
              SumField(out.top_insurances, "Count") = out.total_procedures
    /\ (out.tab = "tab2" /\ out.compared) =>
        /\ \A i \in 1..Len(out.all_doctors_comparison) :
              out.all_doctors_comparison[i].older + out.all_doctors_comparison[i].newest >= 1
        /\ SumField(out.all_doctors_comparison, "older") = Cardinality(ViewRows(1))
        /\ SumField(out.all_doctors_comparison, "newest") = Cardinality(ViewRows(2))

====
